---- MODULE Spec2Model ----
(***************************************************************************)
(* Branching-dialogue tooling: the dialogue graph store and its validator  *)
(* (tools/dialogue_editor/models.py), the YAML saver                       *)
(* (tools/dialogue_editor/yaml_io.py) and the YAML -> Dialogic converter   *)
(* (tools/yaml_to_dialogic.py).                                            *)
(***************************************************************************)
EXTENDS Integers, Sequences, FiniteSets, TLC

(***************************************************************************)
(* Bounds of the model.                                                    *)
(***************************************************************************)
\* number of ids that nodes are given: most nodes of a dialogue
MaxNodes == 2
\* most options of one CHOICE node
MaxChoices == 2
\* most files of the directory convert_all reads
MaxFiles == 2

\* the ids given to nodes: the first MaxNodes of these names
IdNames == <<"a", "b", "c", "d">>
NodeIds == {IdNames[i] : i \in 1..MaxNodes}
\* an id that references may hold and that no node is ever given
UnknownId == "x"
\* the character ids in use
CharIds == {"c1"}
\* values of a reference field: unset, or an id
Refs == NodeIds \cup {"", UnknownId}
\* values of a Say node's speaker field
Speakers == CharIds \cup {""}

(***************************************************************************)
(* models.py: the data model.                                              *)
(***************************************************************************)
NodeType == {"SAY", "CHOICE", "SET", "IF", "JUMP", "END", "SIGNAL"}

\* None: the default of ChoiceOption.condition, and the value of dict.get
\* for an absent key
NoneVal == "<None>"

\* NodePosition: the two coordinates, counted in hundredths of a unit
NodePosition(x, y) == [x |-> x, y |-> y]

ChoiceOption(nxt) == [text |-> "", next |-> nxt, condition |-> NoneVal]

\* DialogueNode(id=nid) with every other field at its dataclass default
DialogueNode(nid) ==
    [ id          |-> nid,
      type        |-> "SAY",
      speaker     |-> "",
      text        |-> "",
      choices     |-> << >>,
      condition   |-> "",
      then_node   |-> "",
      else_node   |-> "",
      jump_target |-> "",
      outcome     |-> "",
      next        |-> "",
      ui_pos      |-> NodePosition(0, 0) ]

\* Character(id=cid): name defaults to the id
Character(cid) == [id |-> cid, name |-> cid]

VARIABLES
    id,           \* Dialogue.id
    start,        \* Dialogue.start
    characters,   \* Dialogue.characters : char id -> Character (a function)
    nodes,        \* Dialogue.nodes      : node id -> DialogueNode (a function)
    nodeOrder,    \* insertion order of the keys of Dialogue.nodes (a dict)
    is_modified,  \* Dialogue.is_modified
    removed,      \* history: ids of the nodes removed so far
    last,         \* history: the last call, its arguments and its return value
    trav,         \* the traversal under way: its call stack and its locals
    saved         \* history: the dialogue as the last load or save left it

dvars == <<id, start, characters, nodes, nodeOrder, is_modified>>
vars == <<id, start, characters, nodes, nodeOrder, is_modified, removed, last, trav,
          saved>>

(***************************************************************************)
(* Helpers on sequences.                                                   *)
(***************************************************************************)
RECURSIVE Without(_, _)
\* the sequence s with every occurrence of x dropped (del d[x] on a dict's keys)
Without(s, x) ==
    IF s = << >> THEN << >>
    ELSE IF Head(s) = x THEN Without(Tail(s), x)
    ELSE <<Head(s)>> \o Without(Tail(s), x)

RECURSIVE Flatten(_)
\* concatenation of a sequence of sequences
Flatten(ss) == IF ss = << >> THEN << >> ELSE Head(ss) \o Flatten(Tail(ss))

(***************************************************************************)
(* Dialogue.add_node / remove_node / add_character / remove_character.     *)
(***************************************************************************)
\* RepairNode with the else_node test left out
RepairNodeNoElse(node, node_id) ==
    [node EXCEPT
        !.next        = IF @ = node_id THEN "" ELSE @,
        !.then_node   = IF @ = node_id THEN "" ELSE @,
        !.jump_target = IF @ = node_id THEN "" ELSE @,
        !.choices     = [i \in DOMAIN node.choices |->
                            [node.choices[i] EXCEPT
                                !.next = IF @ = node_id THEN "" ELSE @]]]

\* the body of remove_node's "for node in self.nodes.values()" loop
RepairNode(node, node_id) ==
    [node EXCEPT
        !.next        = IF @ = node_id THEN "" ELSE @,
        !.then_node   = IF @ = node_id THEN "" ELSE @,
        !.else_node   = IF @ = node_id THEN "" ELSE @,
        !.jump_target = IF @ = node_id THEN "" ELSE @,
        !.choices     = [i \in DOMAIN node.choices |->
                            [node.choices[i] EXCEPT
                                !.next = IF @ = node_id THEN "" ELSE @]]]

\* AddNodeStart that takes "first node" by the letter: the only node
AddNodeStartFirstOnly(node) == IF DOMAIN nodes = {} THEN node.id ELSE start

\* the dialogue fields after add_node(node)
AddNodeStart(node) == IF start = "" THEN node.id ELSE start

\* AddNodeNodes that keeps the node already stored under node.id
AddNodeNodesKeepStored(node) ==
    [k \in DOMAIN nodes \cup {node.id} |-> IF k \in DOMAIN nodes THEN nodes[k] ELSE node]

AddNodeNodes(node) ==
    [k \in DOMAIN nodes \cup {node.id} |-> IF k = node.id THEN node ELSE nodes[k]]

AddNodeOrder(node) ==
    IF node.id \in DOMAIN nodes THEN nodeOrder ELSE Append(nodeOrder, node.id)

\* the dialogue fields after remove_node(node_id), node_id a key of nodes
RemoveNodeNodes(node_id) ==
    [k \in DOMAIN nodes \ {node_id} |-> RepairNode(nodes[k], node_id)]

\* RemoveNodeStart without the "if self.start == node_id" repair
RemoveNodeStartKept(node_id) == start

RemoveNodeStart(node_id) == IF start = node_id THEN "" ELSE start

\* RemoveNodeGuard without the "if node_id in self.nodes" test
RemoveNodeGuardAny(node_id) == TRUE

RemoveNodeGuard(node_id) == node_id \in DOMAIN nodes

RemoveCharacterChars(char_id) ==
    [c \in DOMAIN characters \ {char_id} |-> characters[c]]

\* remove_character made symmetric with remove_node: speakers are cleared
RemoveCharacterNodesRepaired(char_id) ==
    [k \in DOMAIN nodes |->
        [nodes[k] EXCEPT !.speaker = IF @ = char_id THEN "" ELSE @]]

\* remove_character leaves the nodes as they are: speakers are not repaired
RemoveCharacterNodes(char_id) == nodes

(***************************************************************************)
(* Dialogue.validate and Dialogue._find_reachable.                         *)
(***************************************************************************)
\* one entry of the list validate returns: which check fired, on which node,
\* on which choice index (enumerate counts from 0) and for which reference
Diag(kind, nid, idx, ref) == [kind |-> kind, node |-> nid, idx |-> idx, ref |-> ref]

\* "x and x not in self.nodes"
Dangling(N, ref) == ref # "" /\ ref \notin DOMAIN N

\* ChoiceErrors that counts the options from 1
ChoiceErrorsFromOne(N, nid, node) ==
    Flatten([i \in DOMAIN node.choices |->
        IF Dangling(N, node.choices[i].next)
        THEN <<Diag("choice", nid, i, node.choices[i].next)>>
        ELSE << >>])

\* the "for i, choice in enumerate(node.choices)" loop of validate
ChoiceErrors(N, nid, node) ==
    Flatten([i \in DOMAIN node.choices |->
        IF Dangling(N, node.choices[i].next)
        THEN <<Diag("choice", nid, i - 1, node.choices[i].next)>>
        ELSE << >>])

\* the body of validate's "for node_id, node in self.nodes.items()" loop
NodeErrors(N, C, nid) ==
    LET node == N[nid] IN
       (IF Dangling(N, node.next)
        THEN <<Diag("next", nid, -1, node.next)>> ELSE << >>)
    \o (IF node.type = "CHOICE" THEN ChoiceErrors(N, nid, node) ELSE << >>)
    \o (IF node.type = "IF" /\ Dangling(N, node.then_node)
        THEN <<Diag("then", nid, -1, node.then_node)>> ELSE << >>)
    \o (IF node.type = "IF" /\ Dangling(N, node.else_node)
        THEN <<Diag("else", nid, -1, node.else_node)>> ELSE << >>)
    \o (IF node.type = "JUMP" /\ Dangling(N, node.jump_target)
        THEN <<Diag("jump", nid, -1, node.jump_target)>> ELSE << >>)
    \o (IF node.type = "SAY" /\ node.speaker # "" /\ node.speaker \notin DOMAIN C
        THEN <<Diag("speaker", nid, -1, node.speaker)>> ELSE << >>)

RECURSIVE FindReachable(_, _, _)
RECURSIVE FindReachableChoices(_, _, _, _)
\* _find_reachable(node_id, visited): the visited set when the call returns
FindReachable(N, node_id, visited) ==
    IF node_id = "" \/ node_id \in visited \/ node_id \notin DOMAIN N
    THEN visited
    ELSE LET node == N[node_id]
             v0 == visited \cup {node_id}
             v1 == IF node.next # "" THEN FindReachable(N, node.next, v0) ELSE v0
             v2 == FindReachableChoices(N, node.choices, 1, v1)
             v3 == IF node.then_node # ""
                   THEN FindReachable(N, node.then_node, v2) ELSE v2
             v4 == IF node.else_node # ""
                   THEN FindReachable(N, node.else_node, v3) ELSE v3
         IN  IF node.jump_target # ""
             THEN FindReachable(N, node.jump_target, v4) ELSE v4

\* the "for choice in node.choices" loop of _find_reachable, from option i on
FindReachableChoices(N, choices, i, visited) ==
    IF i > Len(choices) THEN visited
    ELSE FindReachableChoices(N, choices, i + 1,
            IF choices[i].next # ""
            THEN FindReachable(N, choices[i].next, visited) ELSE visited)

\* the closing loop of validate: one entry per node outside the visited set
UnreachableErrors(order, reachable) ==
    Flatten([i \in DOMAIN order |->
        IF order[i] \notin reachable
        THEN <<Diag("unreachable", order[i], -1, "")>> ELSE << >>])

\* StartErrors without the "elif self.start not in self.nodes" branch
StartErrorsMissingOnly(d) ==
    IF d.start = "" THEN <<Diag("missing_start", "", -1, "")>> ELSE << >>

\* the check of start in validate
StartErrors(d) ==
    IF d.start = "" THEN <<Diag("missing_start", "", -1, "")>>
    ELSE IF d.start \notin DOMAIN d.nodes
         THEN <<Diag("start_unknown", "", -1, d.start)>> ELSE << >>

\* ValidateWith that gives up on a faulty start: the node checks and the
\* reachability check are skipped
ValidateWithFirstFault(d, reachable) ==
    IF StartErrors(d) # << >>
    THEN    (IF d.id = "" THEN <<Diag("missing_id", "", -1, "")>> ELSE << >>)
         \o StartErrors(d)
    ELSE    (IF d.id = "" THEN <<Diag("missing_id", "", -1, "")>> ELSE << >>)
         \o Flatten([i \in DOMAIN d.nodeOrder |->
                        NodeErrors(d.nodes, d.characters, d.nodeOrder[i])])
         \o UnreachableErrors(d.nodeOrder, reachable)

\* Dialogue.validate() on the dialogue d, given the set that
\* self._find_reachable(self.start, reachable) leaves in reachable
ValidateWith(d, reachable) ==
       (IF d.id = "" THEN <<Diag("missing_id", "", -1, "")>> ELSE << >>)
    \o StartErrors(d)
    \o Flatten([i \in DOMAIN d.nodeOrder |->
                   NodeErrors(d.nodes, d.characters, d.nodeOrder[i])])
    \o UnreachableErrors(d.nodeOrder, reachable)

\* Dialogue.validate() on the dialogue d
Validate(d) == ValidateWith(d, FindReachable(d.nodes, d.start, {}))

\* the dialogue object of the current state
Dlg ==
    [id |-> id, start |-> start, characters |-> characters,
     nodes |-> nodes, nodeOrder |-> nodeOrder]

(***************************************************************************)
(* yaml_io.py: DialogueYAMLSaver, the document a dialogue is saved as.      *)
(* A mapping of the document is a record with the set of its keys ("keys") *)
(* and one field per key it may hold; a field whose key is absent keeps    *)
(* the value of EmptyRecord and is never read.                             *)
(***************************************************************************)
\* the value True of the "end" key
TrueVal == "<True>"

\* round(v, 1) of a coordinate counted in hundredths (no input is a tie)
Round1(v) == ((v + 5) \div 10) * 10

EmptyRecord ==
    [ keys   |-> {},
      say    |-> [keys |-> {}, speaker |-> "", text |-> ""],
      choice |-> << >>,
      if     |-> "",
      then   |-> "",
      else   |-> "",
      jump   |-> "",
      end    |-> "",
      next   |-> "",
      ui     |-> [x |-> 0, y |-> 0] ]

\* one entry of the "choice" list
ChoiceToDict(choice) ==
    [ keys |-> {"text", "next"} \cup (IF choice.condition \notin {NoneVal, ""} THEN {"if"} ELSE {}),
      text |-> choice.text,
      next |-> choice.next,
      if   |-> IF choice.condition \notin {NoneVal, ""} THEN choice.condition ELSE "" ]

\* SavesNext without the "node.next and" test: an empty next is written
SavesNextEmptyToo(node) ==
    node.type \notin {"CHOICE", "IF", "JUMP", "END"}

\* "if node.next and node.type not in (CHOICE, IF, JUMP, END)"
SavesNext(node) ==
    node.next # "" /\ node.type \notin {"CHOICE", "IF", "JUMP", "END"}

\* DialogueYAMLSaver._node_to_dict
NodeToDict(node) ==
    LET typed ==
          CASE node.type = "SAY" ->
                 [EmptyRecord EXCEPT !.keys = {"say"},
                     !.say = [keys |-> {"speaker", "text"},
                              speaker |-> node.speaker, text |-> node.text]]
            [] node.type = "CHOICE" ->
                 [EmptyRecord EXCEPT !.keys = {"choice"},
                     !.choice = [i \in DOMAIN node.choices |-> ChoiceToDict(node.choices[i])]]
            [] node.type = "SET" -> [EmptyRecord EXCEPT !.keys = {"set"}]
            [] node.type = "IF" ->
                 [EmptyRecord EXCEPT
                     !.keys = {"if"} \cup (IF node.then_node # "" THEN {"then"} ELSE {})
                                     \cup (IF node.else_node # "" THEN {"else"} ELSE {}),
                     !.if = node.condition,
                     !.then = node.then_node,
                     !.else = node.else_node]
            [] node.type = "JUMP" ->
                 [EmptyRecord EXCEPT !.keys = {"jump"}, !.jump = node.jump_target]
            [] node.type = "SIGNAL" -> [EmptyRecord EXCEPT !.keys = {"signal"}]
            [] node.type = "END" ->
                 [EmptyRecord EXCEPT !.keys = {"end"},
                     !.end = IF node.outcome # "" THEN node.outcome ELSE TrueVal]
    IN  [typed EXCEPT
            !.keys = @ \cup (IF SavesNext(node) THEN {"next"} ELSE {}) \cup {"ui"},
            !.next = IF SavesNext(node) THEN node.next ELSE "",
            !.ui = [x |-> Round1(node.ui_pos.x), y |-> Round1(node.ui_pos.y)]]

\* DialogueYAMLSaver._dialogue_to_dict: "id", "start" and "nodes" are always
\* written, "characters" when there is one
DialogueToDict(d) ==
    [ keys       |-> {"id", "start", "nodes"}
                       \cup (IF DOMAIN d.characters # {} THEN {"characters"} ELSE {}),
      id         |-> d.id,
      start      |-> d.start,
      characters |-> [c \in DOMAIN d.characters |-> [name |-> d.characters[c].name]],
      nodes      |-> [k \in DOMAIN d.nodes |-> NodeToDict(d.nodes[k])],
      order      |-> d.nodeOrder ]

(***************************************************************************)
(* yaml_to_dialogic.py: DialogueConverter.validate.                        *)
(***************************************************************************)
\* dict.get(key) of a mapping of the document: "" stands for None as well,
\* both are falsy and neither is a key of the nodes
Get(rec, key, value) == IF key \in rec.keys THEN value ELSE ""

\* scalars of a document that are no strings, as yaml.safe_load returns
\* them: the integers 0 and 1 and the boolean False (True and None are
\* TrueVal and NoneVal)
IntZero == "<0>"
IntOne == "<1>"
FalseVal == "<False>"

\* the values Python takes for false
Falsy == {"", NoneVal, FalseVal, IntZero}

\* the value is truthy
Truthy(value) == value \notin Falsy

\* str(value)
Str(value) ==
    CASE value = IntZero  -> "0"
      [] value = IntOne   -> "1"
      [] value = FalseVal -> "False"
      [] value = TrueVal  -> "True"
      [] value = NoneVal  -> "None"
      [] OTHER            -> value

\* "x and x not in self.nodes" on the nodes of the document
DocDangling(N, ref) == Truthy(ref) /\ ref \notin DOMAIN N

\* DialogueConverter._validate_node
ValidateNode(N, nid) ==
    LET node == N[nid] IN
       (IF DocDangling(N, Get(node, "next", node.next))
        THEN <<Diag("next", nid, -1, node.next)>> ELSE << >>)
    \o (IF "choice" \in node.keys
        THEN Flatten([i \in DOMAIN node.choice |->
                IF DocDangling(N, Get(node.choice[i], "next", node.choice[i].next))
                THEN <<Diag("choice", nid, i - 1, node.choice[i].next)>>
                ELSE << >>])
        ELSE << >>)
    \o (IF "if" \in node.keys /\ DocDangling(N, Get(node, "then", node.then))
        THEN <<Diag("then", nid, -1, node.then)>> ELSE << >>)
    \o (IF "if" \in node.keys /\ DocDangling(N, Get(node, "else", node.else))
        THEN <<Diag("else", nid, -1, node.else)>> ELSE << >>)
    \o (IF "jump" \in node.keys /\ node.jump \notin DOMAIN N
        THEN <<Diag("jump", nid, -1, node.jump)>> ELSE << >>)

\* DialogueConverter.validate: self.errors when it returns
ConverterErrors(data) ==
       (IF ~Truthy(Get(data, "id", data.id))
        THEN <<Diag("missing_id", "", -1, "")>> ELSE << >>)
    \o (IF ~Truthy(Get(data, "start", data.start))
        THEN <<Diag("missing_start", "", -1, "")>>
        ELSE IF data.start \notin DOMAIN data.nodes
             THEN <<Diag("start_unknown", "", -1, data.start)>> ELSE << >>)
    \o (IF DOMAIN data.nodes = {}
        THEN <<Diag("missing_nodes", "", -1, "")>> ELSE << >>)
    \o Flatten([i \in DOMAIN data.order |-> ValidateNode(data.nodes, data.order[i])])

(***************************************************************************)
(* yaml_io.py: DialogueYAMLLoader, the dialogue a document is loaded as.   *)
(***************************************************************************)
\* "str(data.get(key, "")) if data.get(key) else """
StrOrEmpty(rec, key, value) ==
    IF Truthy(Get(rec, key, value)) THEN Str(value) ELSE ""

\* ChoiceOption(...) of one entry of the "choice" list
ParseChoice(choice_data) ==
    [ text      |-> Get(choice_data, "text", choice_data.text),
      next      |-> StrOrEmpty(choice_data, "next", choice_data.next),
      condition |-> IF "if" \in choice_data.keys THEN choice_data.if ELSE NoneVal ]

\* ParseVariant that probes "choice" ahead of "say"
ParseVariantChoiceFirst(node, data) ==
    IF "choice" \in data.keys THEN
        [node EXCEPT !.type = "CHOICE",
            !.choices = [i \in DOMAIN data.choice |-> ParseChoice(data.choice[i])]]
    ELSE IF "say" \in data.keys THEN
        [node EXCEPT !.type = "SAY",
            !.speaker = Get(data.say, "speaker", data.say.speaker),
            !.text = Get(data.say, "text", data.say.text)]
    ELSE IF "set" \in data.keys THEN [node EXCEPT !.type = "SET"]
    ELSE IF "if" \in data.keys THEN
        [node EXCEPT !.type = "IF",
            !.condition = Str(data.if),
            !.then_node = StrOrEmpty(data, "then", data.then),
            !.else_node = StrOrEmpty(data, "else", data.else)]
    ELSE IF "jump" \in data.keys THEN
        [node EXCEPT !.type = "JUMP",
            !.jump_target = IF Truthy(data.jump) THEN Str(data.jump) ELSE ""]
    ELSE IF "signal" \in data.keys THEN [node EXCEPT !.type = "SIGNAL"]
    ELSE node

\* the if / elif chain of _parse_node: the first variant key found sets the
\* type and the fields of that variant
ParseVariant(node, data) ==
    IF "say" \in data.keys THEN
        [node EXCEPT !.type = "SAY",
            !.speaker = Get(data.say, "speaker", data.say.speaker),
            !.text = Get(data.say, "text", data.say.text)]
    ELSE IF "choice" \in data.keys THEN
        [node EXCEPT !.type = "CHOICE",
            !.choices = [i \in DOMAIN data.choice |-> ParseChoice(data.choice[i])]]
    ELSE IF "set" \in data.keys THEN [node EXCEPT !.type = "SET"]
    ELSE IF "if" \in data.keys THEN
        [node EXCEPT !.type = "IF",
            !.condition = Str(data.if),
            !.then_node = StrOrEmpty(data, "then", data.then),
            !.else_node = StrOrEmpty(data, "else", data.else)]
    ELSE IF "jump" \in data.keys THEN
        [node EXCEPT !.type = "JUMP",
            !.jump_target = IF Truthy(data.jump) THEN Str(data.jump) ELSE ""]
    ELSE IF "signal" \in data.keys THEN [node EXCEPT !.type = "SIGNAL"]
    ELSE node

\* "if "end" in data": the type becomes END; 1 == True in Python
ParseEnd(node, data) ==
    IF "end" \in data.keys
    THEN [node EXCEPT !.type = "END",
             !.outcome = IF data.end \notin {TrueVal, IntOne} THEN Str(data.end) ELSE @]
    ELSE node

\* DialogueYAMLLoader._parse_node
ParseNode(node_id, data) ==
    LET typed == ParseEnd(ParseVariant(DialogueNode(node_id), data), data)
    IN  [typed EXCEPT
            !.next = IF "next" \in data.keys
                     THEN (IF Truthy(data.next) THEN Str(data.next) ELSE "")
                     ELSE @,
            !.ui_pos = IF "ui" \in data.keys
                       THEN NodePosition(data.ui.x, data.ui.y) ELSE @]

\* the key of the document's nodes that the node id k was loaded from: of
\* the keys whose str() is k, the last one in the document
KeyOf(data, k) ==
    LET places == {i \in DOMAIN data.order : Str(data.order[i]) = k}
    IN  data.order[CHOOSE i \in places : \A j \in places : j <= i]

\* the order of the ids of the loaded nodes: a key first met takes the next place
LoadOrder(data) ==
    SelectSeq([i \in DOMAIN data.order |->
                  IF \E j \in 1..(i - 1) : Str(data.order[j]) = Str(data.order[i])
                  THEN "" ELSE Str(data.order[i])],
              LAMBDA k : k # "")

\* DialogueYAMLLoader.load_dialogue on the document data; new_id is the id
\* Dialogue.__post_init__ draws for a document that has none
LoadDialogue(data, new_id) ==
    [ id         |-> IF Truthy(Get(data, "id", data.id)) THEN data.id ELSE new_id,
      start      |-> StrOrEmpty(data, "start", data.start),
      characters |-> IF "characters" \in data.keys
                     THEN [c \in DOMAIN data.characters |->
                              [id |-> c,
                               name |-> IF Truthy(data.characters[c].name)
                                        THEN data.characters[c].name ELSE c]]
                     ELSE [c \in {} |-> Character(c)],
      nodes      |-> [k \in {Str(key) : key \in DOMAIN data.nodes} |->
                         ParseNode(k, data.nodes[KeyOf(data, k)])],
      nodeOrder  |-> LoadOrder(data) ]

(***************************************************************************)
(* The nodes the callers hand to add_node.  A node refers to at most one   *)
(* other id r, in any of its reference fields; Stale is a node whose type  *)
(* was changed after its fields were set (main_window.py _on_type_changed  *)
(* sets node.type and leaves every other field as it was).                 *)
(***************************************************************************)
Targets(r) == {"", r}

\* the lists of no option or of MaxChoices options over the targets of r
ChoiceLists(r) ==
    UNION {[1..n -> {ChoiceOption(t) : t \in Targets(r)}] : n \in {0, MaxChoices}}

Say(nid, speaker, nxt) ==
    [DialogueNode(nid) EXCEPT !.speaker = speaker, !.next = nxt]

Choice(nid, choices) ==
    [DialogueNode(nid) EXCEPT !.type = "CHOICE", !.choices = choices]

If(nid, then_node, else_node) ==
    [DialogueNode(nid) EXCEPT !.type = "IF", !.condition = "flag",
                              !.then_node = then_node, !.else_node = else_node]

Jump(nid, target) ==
    [DialogueNode(nid) EXCEPT !.type = "JUMP", !.jump_target = target]

End(nid) == [DialogueNode(nid) EXCEPT !.type = "END"]

Stale(nid, r) ==
    [DialogueNode(nid) EXCEPT !.type = "END", !.then_node = r, !.else_node = r,
                              !.jump_target = r, !.choices = <<ChoiceOption(r)>>]

NodeInputs ==
    UNION {
           {Say(nid, "", t) : t \in Targets(r)}
      \cup {Say(nid, s, "") : s \in Speakers}
      \cup {Choice(nid, cs) : cs \in ChoiceLists(r)}
      \cup {If(nid, t, e) : t \in Targets(r), e \in Targets(r)}
      \cup {Jump(nid, t) : t \in Targets(r)}
      \cup {End(nid), Stale(nid, r)}
      : nid \in NodeIds, r \in Refs \ {""} }

\* the reference fields of a node, whatever its type
RefsOf(node) ==
    {node.next, node.then_node, node.else_node, node.jump_target}
        \cup {node.choices[i].next : i \in DOMAIN node.choices}

(***************************************************************************)
(* The graph store as a state machine: one action per call.                *)
(***************************************************************************)
\* no traversal under way; log is the order in which the nodes were visited,
\* events the list convert builds, owners the node each event was emitted for
Idle ==
    [alg |-> "none", stack |-> << >>, visited |-> {}, log |-> << >>,
     events |-> << >>, owners |-> << >>]

NoNodes == [k \in {} |-> DialogueNode(k)]
NoCharacters == [c \in {} |-> Character(c)]

\* the record of a call: op(arg), or op(node) for add_node; hit tells whether
\* the call's guard held, auto whether the node's id came from __post_init__,
\* ret is the list validate returned; of the state before the call: pre_start
\* is start, fresh tells that arg named no node, present or removed, and
\* swept is the set of nodes that held a reference to arg
Call(op, arg, node, hit, auto, ret) ==
    [op |-> op, arg |-> arg, node |-> node, hit |-> hit, auto |-> auto,
     pre_start |-> start,
     fresh |-> arg \notin DOMAIN nodes \cup removed,
     swept |-> {k \in DOMAIN nodes \ {arg} : arg \in RefsOf(nodes[k])},
     ret |-> ret]

\* the nodes, the characters and the start a load or a save leaves behind
Snapshot(d) ==
    [valid |-> TRUE, start |-> d.start, characters |-> d.characters,
     nodes |-> d.nodes]

\* nothing was loaded or saved yet
NoSave == [valid |-> FALSE, start |-> "", characters |-> NoCharacters, nodes |-> NoNodes]

\* no call yet
NoCall ==
    [op |-> "init", arg |-> "", node |-> DialogueNode(""), hit |-> FALSE,
     auto |-> FALSE, pre_start |-> "", fresh |-> TRUE, swept |-> {}, ret |-> << >>]

Init ==
    /\ id = "dialogue_1"
    /\ start = ""
    /\ characters = NoCharacters
    /\ nodes = NoNodes
    /\ nodeOrder = << >>
    /\ is_modified = FALSE
    /\ removed = {}
    /\ last = NoCall
    /\ trav = Idle
    /\ saved = NoSave

\* Dialogue.add_node(node); auto: node was constructed with a blank id
add_node(node, auto) ==
    /\ nodes' = AddNodeNodes(node)
    /\ nodeOrder' = AddNodeOrder(node)
    /\ is_modified' = TRUE
    /\ start' = AddNodeStart(node)
    /\ last' = Call("add_node", node.id, node, TRUE, auto, << >>)
    /\ UNCHANGED <<id, characters>>

\* Dialogue.remove_node(node_id)
remove_node(node_id) ==
    /\ IF RemoveNodeGuard(node_id)
       THEN /\ nodes' = RemoveNodeNodes(node_id)
            /\ nodeOrder' = Without(nodeOrder, node_id)
            /\ is_modified' = TRUE
            /\ start' = RemoveNodeStart(node_id)
       ELSE UNCHANGED <<nodes, nodeOrder, is_modified, start>>
    /\ last' = Call("remove_node", node_id, DialogueNode(""),
                    RemoveNodeGuard(node_id), FALSE, << >>)
    /\ UNCHANGED <<id, characters>>

\* add_character that leaves is_modified as it was
add_characterUnmarked(char_id) ==
    /\ characters' = [c \in DOMAIN characters \cup {char_id} |->
                         IF c = char_id THEN Character(char_id) ELSE characters[c]]
    /\ last' = Call("add_character", char_id, DialogueNode(""), TRUE, FALSE, << >>)
    /\ UNCHANGED <<id, start, nodes, nodeOrder, is_modified>>

\* Dialogue.add_character(character)
add_character(char_id) ==
    /\ characters' = [c \in DOMAIN characters \cup {char_id} |->
                         IF c = char_id THEN Character(char_id) ELSE characters[c]]
    /\ is_modified' = TRUE
    /\ last' = Call("add_character", char_id, DialogueNode(""), TRUE, FALSE, << >>)
    /\ UNCHANGED <<id, start, nodes, nodeOrder>>

\* Dialogue.remove_character(char_id)
remove_character(char_id) ==
    /\ IF char_id \in DOMAIN characters
       THEN /\ characters' = RemoveCharacterChars(char_id)
            /\ is_modified' = TRUE
       ELSE UNCHANGED <<characters, is_modified>>
    /\ nodes' = RemoveCharacterNodes(char_id)
    /\ last' = Call("remove_character", char_id, DialogueNode(""),
                    char_id \in DOMAIN characters, FALSE, << >>)
    /\ UNCHANGED <<id, start, nodeOrder>>

\* validate that ends as save_dialogue does, with is_modified cleared
validateClearsModified ==
    /\ last' = Call("validate", "", DialogueNode(""), TRUE, FALSE, Validate(Dlg))
    /\ is_modified' = FALSE
    /\ UNCHANGED <<id, start, characters, nodes, nodeOrder>>

\* Dialogue.validate()
validate ==
    /\ last' = Call("validate", "", DialogueNode(""), TRUE, FALSE, Validate(Dlg))
    /\ UNCHANGED dvars

AddNodeStep == \E node \in NodeInputs : add_node(node, FALSE) /\ UNCHANGED <<removed, trav, saved>>
RemoveNodeStep == \E node_id \in Refs \ {""} : remove_node(node_id) /\ UNCHANGED <<removed, trav, saved>>
AddCharacterStep == \E c \in CharIds : add_character(c) /\ UNCHANGED <<removed, trav, saved>>
RemoveCharacterStep == \E c \in CharIds : remove_character(c) /\ UNCHANGED <<removed, trav, saved>>
ValidateStep == validate /\ UNCHANGED <<removed, trav, saved>>

Next ==
    \/ AddNodeStep
    \/ RemoveNodeStep
    \/ AddCharacterStep
    \/ RemoveCharacterStep
    \/ ValidateStep

Spec == Init /\ [][Next]_vars

(***************************************************************************)
(* The store under callers that only add nodes whose references name       *)
(* nodes present at the time of insertion.                                 *)
(***************************************************************************)
AddCleanNodeStep ==
    \E node \in NodeInputs :
        /\ RefsOf(node) \subseteq DOMAIN nodes \cup {""}
        /\ add_node(node, FALSE)
        /\ UNCHANGED <<removed, trav, saved>>

NextClean == AddCleanNodeStep \/ RemoveNodeStep

SpecClean == Init /\ [][NextClean]_vars

(***************************************************************************)
(* The store under callers that construct every node with a blank id:      *)
(* DialogueNode.__post_init__ draws the id, uuid4().hex[:5], which is any  *)
(* id of the space.  The ids of the removed nodes are recorded.            *)
(***************************************************************************)
\* main_window.py builds a new node as DialogueNode(type=node_type)
AutoNodeInputs ==
    {[DialogueNode(nid) EXCEPT !.type = t] : nid \in NodeIds, t \in NodeType}

AddAutoNodeStep ==
    \E node \in AutoNodeInputs : add_node(node, TRUE) /\ UNCHANGED <<removed, trav, saved>>

RemoveRecordedStep ==
    \E node_id \in Refs \ {""} :
        /\ remove_node(node_id)
        /\ removed' = IF RemoveNodeGuard(node_id) THEN removed \cup {node_id} ELSE removed
        /\ UNCHANGED <<trav, saved>>

NextIds == AddAutoNodeStep \/ RemoveRecordedStep

SpecIds == Init /\ [][NextIds]_vars

(***************************************************************************)
(* Properties of the graph store.                                          *)
(***************************************************************************)
\* no reference field of a stored node equals node_id
NoRefTo(node_id) == \A k \in DOMAIN nodes : node_id \notin RefsOf(nodes[k])

\* C1 as stated: for every dialogue state and every id, right after
\* remove_node(id) returns, id is no key of nodes and no remaining node has a
\* reference field (next, then_node, else_node, jump_target, a choice
\* option's next) equal to id.
C1_RemoveNodeAnyId ==
    last.op = "remove_node" => last.arg \notin DOMAIN nodes /\ NoRefTo(last.arg)

\* C1 amended: for every dialogue state and every id that is a key of nodes,
\* right after remove_node(id) returns, id is no key of nodes and no
\* remaining node has a reference field equal to id.
C1_RemoveNodePresentId ==
    last.op = "remove_node" /\ last.hit =>
        last.arg \notin DOMAIN nodes /\ NoRefTo(last.arg)

\* remove_node removed a node that another node, still stored, referred to
C1_Witness ==
    last.op = "remove_node" /\ last.hit /\ last.swept # {} /\ DOMAIN nodes # {}

\* C2: from an empty dialogue, after any sequence of add_node and
\* remove_node calls in which every added node's reference fields are empty
\* or name nodes present when it is inserted, start and every reference
\* field of every stored node is empty or names a node of nodes.
C2_NoDanglingReference ==
    /\ start \in DOMAIN nodes \cup {""}
    /\ \A k \in DOMAIN nodes : RefsOf(nodes[k]) \subseteq DOMAIN nodes \cup {""}

\* the start node, which another node referred to, has just been removed
C2_Witness ==
    /\ last.op = "remove_node" /\ last.hit
    /\ last.pre_start = last.arg
    /\ last.swept # {}

C4_AutoIdFresh ==
    last.op = "add_node" /\ last.auto => last.fresh

\* the speaker diagnostics of the list errs for the node k
SpeakerDiags(errs, k) ==
    {i \in DOMAIN errs : errs[i].kind = "speaker" /\ errs[i].node = k}

\* C5: remove_character(c) changes only the characters mapping and
\* is_modified: no node field is altered, every Say node whose speaker was c
\* still has speaker c, and the validate that follows returns one "speaker
\* not in characters" diagnostic for each such node.
C5_RemoveCharacter ==
    [][ /\ last'.op = "remove_character" =>
              /\ nodes' = nodes
              /\ nodeOrder' = nodeOrder
              /\ start' = start
              /\ id' = id
              /\ DOMAIN characters' = DOMAIN characters \ {last'.arg}
              /\ \A c \in DOMAIN characters' : characters'[c] = characters[c]
        /\ last.op = "remove_character" /\ last'.op = "validate" =>
              \A k \in DOMAIN nodes :
                  nodes[k].type = "SAY" /\ nodes[k].speaker = last.arg =>
                      /\ Cardinality(SpeakerDiags(last'.ret, k)) = 1
                      /\ \A i \in SpeakerDiags(last'.ret, k) :
                             last'.ret[i].ref = last.arg
      ]_vars

\* a character that a stored Say node names as its speaker has been removed
C5_Witness ==
    /\ last.op = "remove_character" /\ last.hit
    /\ \E k \in DOMAIN nodes :
           nodes[k].type = "SAY" /\ nodes[k].speaker = last.arg

\* C11: validate never mutates the Dialogue: nodes and every node field,
\* characters, start, id and is_modified are after the call what they were
\* before it, whatever diagnostics are returned.
C11_ValidateReadOnly ==
    [][last'.op = "validate" => dvars' = dvars]_vars

\* validate returned diagnostics on a modified dialogue that holds nodes and
\* a character
C11_Witness ==
    /\ last.op = "validate" /\ last.ret # << >>
    /\ is_modified
    /\ DOMAIN nodes # {} /\ DOMAIN characters # {}

\* C25: add_node with a node whose id is already a key of nodes raises no
\* error and silently overwrites: afterwards nodes has the same key set (in
\* the same order), nodes[id] is the new node, every other node is what it
\* was, and start is unchanged when it was non-empty.
C25_AddNodeOverwrites ==
    [][last'.op = "add_node" /\ last'.arg \in DOMAIN nodes =>
           /\ last'.hit
           /\ DOMAIN nodes' = DOMAIN nodes
           /\ nodeOrder' = nodeOrder
           /\ nodes'[last'.arg] = last'.node
           /\ \A k \in DOMAIN nodes \ {last'.arg} : nodes'[k] = nodes[k]
           /\ start # "" => start' = start
      ]_vars

\* add_node has replaced a stored node by a node of another type, next to
\* another node, in a dialogue whose start was set
C25_Witness ==
    /\ last.op = "add_node" /\ ~last.fresh
    /\ last.pre_start # "" /\ start = last.pre_start
    /\ nodes[last.arg] = last.node /\ last.node.type # "SAY"
    /\ Cardinality(DOMAIN nodes) >= 2

(***************************************************************************)
(* The two validators as functions of any dialogue: the dialogue is drawn  *)
(* from the bounded set of dialogues (its fields are plain attributes, so  *)
(* a caller or a loaded file may set any of them), then validated, as it   *)
(* is by Dialogue.validate and, saved, by DialogueConverter.validate.      *)
(***************************************************************************)
\* the orders in which a dict may hold the keys D
Orders(D) ==
    {o \in [1..Cardinality(D) -> D] : \A i, j \in DOMAIN o : o[i] = o[j] => i = j}

InitValidate ==
    /\ id \in {"", "dialogue_1"}
    /\ start \in Refs
    /\ \E CS \in SUBSET CharIds : characters = [c \in CS |-> Character(c)]
    /\ \E D \in SUBSET NodeIds :
           /\ nodes \in {f \in [D -> NodeInputs] : \A k \in D : f[k].id = k}
           /\ nodeOrder \in Orders(D)
    /\ is_modified = FALSE
    /\ removed = {}
    /\ last = NoCall
    /\ trav = Idle
    /\ saved = NoSave

\* DialogueConverter(data, file).validate() on the saved dialogue
converter_validate ==
    /\ last' = Call("converter_validate", "", DialogueNode(""), TRUE, FALSE,
                    ConverterErrors(DialogueToDict(Dlg)))
    /\ UNCHANGED dvars

ConverterValidateStep == converter_validate /\ UNCHANGED <<removed, trav, saved>>

NextValidate == ValidateStep \/ ConverterValidateStep

SpecValidate == InitValidate /\ [][NextValidate]_vars

(***************************************************************************)
(* remove_node on any dialogue: the dialogue is drawn from the dialogues    *)
(* whose nodes hold two references, to any two ids, in every reference     *)
(* field, and two choice options told apart by their texts.                *)
(***************************************************************************)
\* a node that holds the references r1 and r2, whatever its type reads
Full(nid, r1, r2) ==
    [DialogueNode(nid) EXCEPT
        !.type = "CHOICE", !.speaker = "c1", !.text = "hi", !.condition = "flag",
        !.next = r1, !.then_node = r2, !.else_node = r1, !.jump_target = r2,
        !.choices = <<[ChoiceOption(r1) EXCEPT !.text = "one"],
                      [ChoiceOption(r2) EXCEPT !.text = "two", !.condition = "flag"]>>]

FullInputs == {Full(nid, r1, r2) : nid \in NodeIds, r1 \in Refs, r2 \in Refs}

InitFrame ==
    /\ id = "dialogue_1"
    /\ start \in Refs
    /\ \E CS \in SUBSET CharIds : characters = [c \in CS |-> Character(c)]
    /\ \E D \in SUBSET NodeIds :
           /\ nodes \in {f \in [D -> FullInputs] : \A k \in D : f[k].id = k}
           /\ nodeOrder \in Orders(D)
    /\ is_modified \in BOOLEAN
    /\ removed = {}
    /\ last = NoCall
    /\ trav = Idle
    /\ saved = NoSave

NextFrame == RemoveNodeStep

SpecFrame == InitFrame /\ [][NextFrame]_vars

\* C30: remove_node(id) changes nothing beyond the repair: when id is not a
\* key of nodes the dialogue is entirely unchanged (is_modified included);
\* when it is, the only changes are the deletion of node id, start cleared
\* if it equalled id, the reference fields equal to id emptied, and
\* is_modified set; every other node, every reference field naming another
\* node, the order of the choice options and the characters mapping are
\* unchanged.
C30_RemoveNodeFrame ==
    [][last'.op = "remove_node" =>
           LET gone == last'.arg
               kept(before) == IF before = gone THEN "" ELSE before
           IN  IF gone \notin DOMAIN nodes
               THEN dvars' = dvars
               ELSE /\ id' = id /\ characters' = characters
                    /\ is_modified'
                    /\ start' = kept(start)
                    /\ DOMAIN nodes' = DOMAIN nodes \ {gone}
                    /\ nodeOrder' = SelectSeq(nodeOrder, LAMBDA k : k # gone)
                    /\ \A k \in DOMAIN nodes \ {gone} :
                           LET o == nodes[k]
                               n == nodes'[k]
                           IN  /\ n.id = o.id /\ n.type = o.type
                               /\ n.speaker = o.speaker /\ n.text = o.text
                               /\ n.condition = o.condition /\ n.outcome = o.outcome
                               /\ n.ui_pos = o.ui_pos
                               /\ n.next = kept(o.next)
                               /\ n.then_node = kept(o.then_node)
                               /\ n.else_node = kept(o.else_node)
                               /\ n.jump_target = kept(o.jump_target)
                               /\ Len(n.choices) = Len(o.choices)
                               /\ \A i \in DOMAIN o.choices :
                                      /\ n.choices[i].text = o.choices[i].text
                                      /\ n.choices[i].condition = o.choices[i].condition
                                      /\ n.choices[i].next = kept(o.choices[i].next)
      ]_vars

\* remove_node has removed a node; a node that is left held one reference to
\* it, now empty, and holds another reference, and start named the node
C30_Witness ==
    /\ last.op = "remove_node" /\ last.hit /\ last.pre_start = last.arg
    /\ \E k \in DOMAIN nodes :
           /\ k \in last.swept
           /\ nodes[k].next = "" /\ nodes[k].choices[1].next = ""
           /\ nodes[k].then_node # "" /\ nodes[k].choices[2].next # ""

(***************************************************************************)
(* Properties of the validators.                                           *)
(***************************************************************************)
RECURSIVE Closure(_, _)
\* the least set that holds S and every stored node a member refers to
Closure(N, S) ==
    LET T == S \cup UNION {RefsOf(N[k]) \cap DOMAIN N : k \in S}
    IN  IF T = S THEN S ELSE Closure(N, T)

\* the nodes reachable from start along next, choice option next, then, else
\* and jump-target edges
Reachable == Closure(nodes, {start} \cap DOMAIN nodes)

\* the positions of the list errs that hold a diagnostic of this kind on node k
DiagsOn(errs, kind, k) ==
    {i \in DOMAIN errs : errs[i].kind = kind /\ errs[i].node = k}

\* the kinds of the dangling-reference diagnostics
RefKinds == {"next", "choice", "then", "else", "jump"}

NoDanglingField ==
    \A k \in DOMAIN nodes : RefsOf(nodes[k]) \subseteq DOMAIN nodes \cup {""}

NoUnknownSpeaker ==
    \A k \in DOMAIN nodes :
        nodes[k].type = "SAY" /\ nodes[k].speaker # "" =>
            nodes[k].speaker \in DOMAIN characters

\* C6: validate reports a node as unreachable if and only if it is not
\* reachable from start along next, choice option next, then, else and
\* jump-target edges, and reports it once; for a dialogue with a non-empty
\* id, an existing start, no dangling reference and no unknown speaker, the
\* unreachable-node diagnostics are the only diagnostics.
C6_Unreachable ==
    last.op = "validate" =>
        /\ \A k \in DOMAIN nodes :
               Cardinality(DiagsOn(last.ret, "unreachable", k))
                   = IF k \in Reachable THEN 0 ELSE 1
        /\ \A i \in DOMAIN last.ret :
               last.ret[i].kind = "unreachable" => last.ret[i].node \in DOMAIN nodes
        /\ id # "" /\ start \in DOMAIN nodes /\ NoDanglingField /\ NoUnknownSpeaker
               => \A i \in DOMAIN last.ret : last.ret[i].kind = "unreachable"

\* validate, on a dialogue with no other fault, reported an unreachable node
\* while a node other than start was reached over an edge
C6_Witness ==
    /\ last.op = "validate"
    /\ id # "" /\ start \in DOMAIN nodes /\ NoDanglingField /\ NoUnknownSpeaker
    /\ last.ret # << >>
    /\ Cardinality(Reachable) >= 2

\* every node is reachable from start
AllReachable == DOMAIN nodes \subseteq Reachable

\* C8 as stated: if validate returns an empty list then start names an
\* existing node, every cross-reference field of every node (next, then_node,
\* else_node, jump_target, each choice option next) is empty or names an
\* existing node, every non-empty Say speaker is a key of characters and
\* every node is reachable from start.
C8_EmptyMeansValid ==
    last.op = "validate" /\ last.ret = << >> =>
        /\ start \in DOMAIN nodes
        /\ NoDanglingField
        /\ NoUnknownSpeaker
        /\ AllReachable

\* the reference fields validate reads on a node of this type: next on every
\* node, the option nexts on a Choice, then and else on an If, the target on
\* a Jump
ApplicableRefs(node) ==
    {node.next}
    \cup (IF node.type = "CHOICE"
          THEN {node.choices[i].next : i \in DOMAIN node.choices} ELSE {})
    \cup (IF node.type = "IF" THEN {node.then_node, node.else_node} ELSE {})
    \cup (IF node.type = "JUMP" THEN {node.jump_target} ELSE {})

\* C8 amended: if validate returns an empty list then start names an existing
\* node, every cross-reference field that applies to its node's type (next
\* for every node, each option's next for a Choice node, then_node and
\* else_node for an If node, jump_target for a Jump node) is empty or names
\* an existing node, every non-empty Say speaker is a key of characters and
\* every node is reachable from start.
C8_EmptyMeansValidApplicable ==
    last.op = "validate" /\ last.ret = << >> =>
        /\ start \in DOMAIN nodes
        /\ \A k \in DOMAIN nodes :
               ApplicableRefs(nodes[k]) \subseteq DOMAIN nodes \cup {""}
        /\ NoUnknownSpeaker
        /\ AllReachable

\* validate returned an empty list for a dialogue of two nodes, one of them a
\* Say node with a speaker
C8_Witness ==
    /\ last.op = "validate" /\ last.ret = << >>
    /\ Cardinality(DOMAIN nodes) >= 2
    /\ \E k \in DOMAIN nodes : nodes[k].speaker # ""

\* the positions of errs that hold the diagnostic of option i (from 0) of node k
ChoiceDiags(errs, k, i) ==
    {j \in DOMAIN errs :
        errs[j].kind = "choice" /\ errs[j].node = k /\ errs[j].idx = i}

\* C9: for every Choice node n and option index i whose next is non-empty
\* and not a key of nodes, validate returns exactly one dangling-reference
\* diagnostic naming n and i; it returns none for an option whose next is
\* empty or names an existing node.  (Dialogue.validate, and
\* DialogueConverter.validate on the saved dialogue.)
C9_DanglingChoice ==
    last.op \in {"validate", "converter_validate"} =>
        \A k \in DOMAIN nodes :
            nodes[k].type = "CHOICE" =>
                \A i \in DOMAIN nodes[k].choices :
                    LET ref == nodes[k].choices[i].next
                        found == ChoiceDiags(last.ret, k, i - 1)
                    IN  /\ Cardinality(found)
                              = IF ref # "" /\ ref \notin DOMAIN nodes THEN 1 ELSE 0
                        /\ \A j \in found : last.ret[j].ref = ref

\* a validator ran on a Choice node whose first option names an existing node
\* or nothing and whose second option dangles
C9_Witness ==
    /\ last.op \in {"validate", "converter_validate"}
    /\ \E k \in DOMAIN nodes :
           /\ nodes[k].type = "CHOICE"
           /\ Len(nodes[k].choices) >= 2
           /\ nodes[k].choices[1].next \in DOMAIN nodes \cup {""}
           /\ nodes[k].choices[2].next \notin DOMAIN nodes \cup {""}
           /\ ChoiceDiags(last.ret, k, 1) # {}

\* C10: a reference field that is empty or absent (next, then, else, jump
\* target, choice option next) never produces a diagnostic, neither in
\* Dialogue.validate nor in DialogueConverter.validate.
C10_EmptyReferenceLegal ==
    last.op \in {"validate", "converter_validate"} =>
        \A i \in DOMAIN last.ret :
            last.ret[i].kind \in RefKinds => last.ret[i].ref # ""

\* the check a diagnostic of this kind comes from, numbered as the checks are
\* listed: id, start, references, speakers, reachability
CheckOf(kind) ==
    CASE kind = "missing_id" -> 1
      [] kind \in {"missing_start", "start_unknown"} -> 2
      [] kind \in RefKinds -> 3
      [] kind = "speaker" -> 4
      [] kind = "unreachable" -> 5

\* the pass a diagnostic of this kind comes from: the loop over the nodes
\* makes the reference checks and the speaker check of a node together
PassOf(kind) ==
    CASE kind = "missing_id" -> 1
      [] kind \in {"missing_start", "start_unknown"} -> 2
      [] kind \in RefKinds \cup {"speaker"} -> 3
      [] kind = "unreachable" -> 4

\* the place of the node k in the order of the nodes
PlaceOf(k) == CHOOSE i \in DOMAIN nodeOrder : nodeOrder[i] = k

\* every check has left its diagnostics in errs, whatever the other checks
\* found
NothingSuppressed(errs) ==
    /\ (id = "") <=> (\E i \in DOMAIN errs : errs[i].kind = "missing_id")
    /\ (start = "") <=> (\E i \in DOMAIN errs : errs[i].kind = "missing_start")
    /\ (start # "" /\ start \notin DOMAIN nodes)
           <=> (\E i \in DOMAIN errs : errs[i].kind = "start_unknown")
    /\ \A k \in DOMAIN nodes :
           LET node == nodes[k]
               dangles(ref) == ref # "" /\ ref \notin DOMAIN nodes
           IN  /\ dangles(node.next) <=> DiagsOn(errs, "next", k) # {}
               /\ (node.type = "IF" /\ dangles(node.then_node))
                      <=> DiagsOn(errs, "then", k) # {}
               /\ (node.type = "IF" /\ dangles(node.else_node))
                      <=> DiagsOn(errs, "else", k) # {}
               /\ (node.type = "JUMP" /\ dangles(node.jump_target))
                      <=> DiagsOn(errs, "jump", k) # {}
               /\ (node.type = "CHOICE"
                      /\ \E i \in DOMAIN node.choices : dangles(node.choices[i].next))
                      <=> DiagsOn(errs, "choice", k) # {}
               /\ (node.type = "SAY" /\ node.speaker # ""
                      /\ node.speaker \notin DOMAIN characters)
                      <=> DiagsOn(errs, "speaker", k) # {}
               /\ (k \notin Reachable) <=> DiagsOn(errs, "unreachable", k) # {}

\* C12 as stated: the list validate returns is ordered by check: the
\* missing-id diagnostic, then the start diagnostic, then all
\* dangling-reference diagnostics of all nodes, then all unknown-speaker
\* diagnostics of all Say nodes, then all unreachable-node diagnostics; a
\* fault found by an earlier check does not suppress the diagnostics of
\* later checks.
C12_OrderedByCheck ==
    last.op = "validate" =>
        /\ \A i, j \in DOMAIN last.ret :
               i < j => CheckOf(last.ret[i].kind) <= CheckOf(last.ret[j].kind)
        /\ NothingSuppressed(last.ret)

\* C12 amended: the list validate returns holds the missing-id diagnostic,
\* then the start diagnostic, then, node by node in the order of nodes, the
\* node's dangling-reference diagnostics followed by its unknown-speaker
\* diagnostic, then the unreachable-node diagnostics in the order of nodes;
\* a fault found by an earlier check does not suppress the diagnostics of
\* later checks.
C12_OrderedByNode ==
    last.op = "validate" =>
        /\ \A i, j \in DOMAIN last.ret :
               i < j =>
                 LET e == last.ret[i]
                     f == last.ret[j]
                 IN  /\ PassOf(e.kind) <= PassOf(f.kind)
                     /\ PassOf(e.kind) = PassOf(f.kind) /\ PassOf(e.kind) >= 3 =>
                            /\ PlaceOf(e.node) <= PlaceOf(f.node)
                            /\ e.node = f.node => CheckOf(e.kind) <= CheckOf(f.kind)
        /\ NothingSuppressed(last.ret)

\* validate returned a diagnostic of each of the five checks, the speaker
\* diagnostic of one node ahead of the dangling reference of a later node
C12_Witness ==
    /\ last.op = "validate"
    /\ \A c \in 1..5 : \E i \in DOMAIN last.ret : CheckOf(last.ret[i].kind) = c
    /\ \E i, j \in DOMAIN last.ret :
           /\ i < j
           /\ last.ret[i].kind = "speaker"
           /\ last.ret[j].kind \in RefKinds

\* C28: the two validators agree on acceptance: every dialogue for which
\* Dialogue.validate returns no diagnostics is accepted by
\* DialogueConverter.validate (it returns True, with no errors) when applied
\* to the document produced by serializing that dialogue.
C28_ValidatorsAgree ==
    last.op = "converter_validate" /\ Validate(Dlg) = << >> => last.ret = << >>

(***************************************************************************)
(* Loading and saving: DialogueYAMLLoader.load_dialogue reads a document   *)
(* into the dialogue, DialogueYAMLSaver.save_dialogue writes the dialogue  *)
(* as a document, and the document written is read back.  yaml.dump and    *)
(* yaml.safe_load carry the mapping _dialogue_to_dict builds unchanged:    *)
(* its scalars are strings, which PyYAML quotes where they would read as   *)
(* another type, the value True and one-decimal floats.                    *)
(***************************************************************************)
\* the keys a node record of a document may hold
NodeKeys == {"say", "choice", "set", "if", "jump", "signal", "end", "next", "ui"}

\* the keys of the nodes of the documents: a word, the integers 0 and 1, and
\* the string '1'
KeyTokens == {"a", IntZero, IntOne, "1"}

\* a node record with the keys K (and "then", "else" beside "if"), whose
\* references are all written r and whose "end" value is end_value
DocNode(K, r, end_value) ==
    [EmptyRecord EXCEPT
        !.keys   = K \cup (IF "if" \in K THEN {"then", "else"} ELSE {}),
        !.say    = [keys |-> {"speaker", "text"}, speaker |-> "c1", text |-> "hi"],
        !.choice = <<[keys |-> {"text", "next"}, text |-> "go", next |-> r, if |-> ""]>>,
        !.if     = "flag",
        !.then   = r,
        !.else   = r,
        !.jump   = r,
        !.end    = end_value,
        !.next   = r,
        !.ui     = [x |-> 123, y |-> 0]]

\* a document with the nodes recs (key -> record), in the order given
Doc(start_value, recs, order) ==
    [ keys       |-> {"id", "start", "nodes"},
      id         |-> "d1",
      start      |-> start_value,
      characters |-> [c \in {} |-> [name |-> c]],
      nodes      |-> recs,
      order      |-> order ]

\* the documents read: one node with any set of keys that refers to itself,
\* or a Say node followed by the End node it names as its next
DocInputs ==
         UNION {{Doc(st, [k \in {key} |-> DocNode(K, key, end_value)], <<key>>) :
                    st \in {"", key}, K \in SUBSET NodeKeys,
                    end_value \in {TrueVal, "win"}} :
                key \in KeyTokens \ {"1"}}
    \cup {Doc(p[1], [k \in {p[1], p[2]} |->
                        IF k = p[1] THEN DocNode({"say", "next"}, p[2], TrueVal)
                        ELSE DocNode({"end"}, "", TrueVal)],
               <<p[1], p[2]>>) :
              p \in {q \in KeyTokens \X KeyTokens : q[1] # q[2]}}

\* the calls that read or write a document
FileOps == {"load_dialogue", "save_dialogue"}

\* the calls of the graph store
StoreOps == {"add_node", "remove_node", "add_character", "remove_character"}

\* the record of load_dialogue or save_dialogue: the document read or
\* written, whether the document read is the one just written, and the
\* dialogue as it was before the call
FileCall(op, doc, reload) ==
    [op |-> op, doc |-> doc, reload |-> reload, pre |-> Dlg]

\* DialogueYAMLLoader.load_dialogue: the dialogue the application then holds
load_dialogue(data, reload) ==
    LET d == LoadDialogue(data, "dialogue_1") IN
    /\ id' = d.id
    /\ start' = d.start
    /\ characters' = d.characters
    /\ nodes' = d.nodes
    /\ nodeOrder' = d.nodeOrder
    /\ is_modified' = FALSE
    /\ last' = FileCall("load_dialogue", data, reload)
    /\ saved' = Snapshot(d)

\* DialogueYAMLSaver.save_dialogue
save_dialogue ==
    /\ is_modified' = FALSE
    /\ last' = FileCall("save_dialogue", DialogueToDict(Dlg), FALSE)
    /\ saved' = Snapshot(Dlg)
    /\ UNCHANGED <<id, start, characters, nodes, nodeOrder>>

\* a document is opened in a new session
LoadStep ==
    /\ last.op = "init"
    /\ \E data \in DocInputs : load_dialogue(data, FALSE)
    /\ UNCHANGED <<removed, trav>>

\* the dialogue that was opened or built is saved
SaveStep ==
    /\ \/ last.op \in StoreOps
       \/ last.op = "load_dialogue" /\ ~last.reload
    /\ save_dialogue
    /\ UNCHANGED <<removed, trav>>

\* the document just saved is opened again
ReloadStep ==
    /\ last.op = "save_dialogue"
    /\ load_dialogue(last.doc, TRUE)
    /\ UNCHANGED <<removed, trav>>

NextLoad == LoadStep \/ SaveStep \/ ReloadStep

SpecLoad == Init /\ [][NextLoad]_vars

\* the nodes handed to add_node, and Say nodes the editor has placed
\* (main_window.py sets node.ui_pos to the scene position)
PlacedNodeInputs ==
    NodeInputs
        \cup {[Say(nid, "", "") EXCEPT !.ui_pos = NodePosition(123, 0)] : nid \in NodeIds}

\* the dialogue is being built: nothing was saved yet
Building == last.op \notin FileOps

BuildAddNodeStep ==
    /\ Building
    /\ \E node \in PlacedNodeInputs : add_node(node, FALSE)
    /\ UNCHANGED <<removed, trav, saved>>

BuildRemoveNodeStep == Building /\ RemoveNodeStep
BuildAddCharacterStep == Building /\ AddCharacterStep
BuildRemoveCharacterStep == Building /\ RemoveCharacterStep

NextSave ==
    \/ BuildAddNodeStep
    \/ BuildRemoveNodeStep
    \/ BuildAddCharacterStep
    \/ BuildRemoveCharacterStep
    \/ SaveStep
    \/ ReloadStep

SpecSave == Init /\ [][NextSave]_vars

(***************************************************************************)
(* An editing session: the dialogue is loaded, edited through the store    *)
(* and saved, in any order.  The nodes added are Say nodes, and the files  *)
(* opened are files the editor has saved.                                  *)
(***************************************************************************)
SessionNodeInputs ==
    {Say(nid, "", t) : nid \in NodeIds, t \in NodeIds \cup {""}}

\* the files opened: a saved dialogue of one Say node, and one of two
SessionDocs ==
    { DialogueToDict([id |-> "d1", start |-> "a", characters |-> NoCharacters,
                      nodes |-> [k \in {"a"} |-> Say("a", "", "")],
                      nodeOrder |-> <<"a">>]),
      DialogueToDict([id |-> "d1", start |-> "a",
                      characters |-> [c \in CharIds |-> Character(c)],
                      nodes |-> [k \in {"a", "b"} |->
                                    IF k = "a" THEN Say("a", "", "b") ELSE Say("b", "", "")],
                      nodeOrder |-> <<"a", "b">>]) }

SessionLoadStep ==
    /\ \E data \in SessionDocs : load_dialogue(data, FALSE)
    /\ UNCHANGED <<removed, trav>>

SessionSaveStep ==
    /\ save_dialogue
    /\ UNCHANGED <<removed, trav>>

SessionAddNodeStep ==
    /\ \E node \in SessionNodeInputs : add_node(node, FALSE)
    /\ UNCHANGED <<removed, trav, saved>>

NextSession ==
    \/ SessionLoadStep
    \/ SessionSaveStep
    \/ SessionAddNodeStep
    \/ RemoveNodeStep
    \/ AddCharacterStep
    \/ RemoveCharacterStep

SpecSession == Init /\ [][NextSession]_vars

(***************************************************************************)
(* Properties of loading and saving.                                       *)
(***************************************************************************)
\* the fields of the node's own variant
VariantFields(node) ==
    CASE node.type = "SAY"    -> <<node.speaker, node.text>>
      [] node.type = "CHOICE" -> <<node.choices>>
      [] node.type = "IF"     -> <<node.condition, node.then_node, node.else_node>>
      [] node.type = "JUMP"   -> <<node.jump_target>>
      [] node.type = "END"    -> <<node.outcome>>
      [] OTHER                -> << >>

\* C13: for every source document doc for which parse returns a Dialogue,
\* parse(serialize(parse(doc))) is structurally equal to parse(doc): same
\* id, start and characters, and for every node the same type, variant
\* fields, next and position.
C13_RoundTripOfParsed ==
    last.op = "load_dialogue" /\ last.reload =>
        /\ id = last.pre.id
        /\ start = last.pre.start
        /\ characters = last.pre.characters
        /\ DOMAIN nodes = DOMAIN last.pre.nodes
        /\ \A k \in DOMAIN nodes \cap DOMAIN last.pre.nodes :
               /\ nodes[k].type = last.pre.nodes[k].type
               /\ VariantFields(nodes[k]) = VariantFields(last.pre.nodes[k])
               /\ nodes[k].next = last.pre.nodes[k].next
               /\ nodes[k].ui_pos = last.pre.nodes[k].ui_pos

\* C14: for any Dialogue d built by a sequence of add_node, remove_node,
\* add_character and remove_character calls, parse(serialize(d)) is
\* structurally equal to d: same start, characters and node ids, and for
\* every node the same type and field values (choice option conditions and
\* next included) and the same position (coordinates are counted in
\* hundredths, so within 1e-6 is equality).
C14_RoundTripOfBuilt ==
    last.op = "load_dialogue" /\ last.reload =>
        /\ start = last.pre.start
        /\ characters = last.pre.characters
        /\ DOMAIN nodes = DOMAIN last.pre.nodes
        /\ \A k \in DOMAIN nodes \cap DOMAIN last.pre.nodes :
               nodes[k] = last.pre.nodes[k]

\* the order in which _parse_node probes the variant keys
ProbeOrder == <<"say", "choice", "set", "if", "jump", "signal">>

\* the node type each variant key stands for
TypeOfKey ==
    [say |-> "SAY", choice |-> "CHOICE", set |-> "SET", if |-> "IF",
     jump |-> "JUMP", signal |-> "SIGNAL"]

\* C15: parse selects a node's variant as the first key present in the
\* order say, choice, set, if, jump, signal, and a node record that contains
\* an end key yields an End node whatever other variant keys are present.
C15_VariantByFirstKey ==
    last.op = "load_dialogue" =>
        \A key \in DOMAIN last.doc.nodes :
            LET rec == last.doc.nodes[key]
                node == nodes[Str(key)]
                present == {i \in DOMAIN ProbeOrder : ProbeOrder[i] \in rec.keys}
                first == CHOOSE i \in present : \A j \in present : i <= j
            IN  KeyOf(last.doc, Str(key)) = key =>
                    /\ "end" \in rec.keys => node.type = "END"
                    /\ "end" \notin rec.keys /\ present # {} =>
                           node.type = TypeOfKey[ProbeOrder[first]]

\* a record with the keys choice, if and jump was loaded as a Choice node,
\* and a record with these and the end key as an End node
C15_Witness ==
    /\ last.op = "load_dialogue"
    /\ \E key \in DOMAIN last.doc.nodes :
           /\ {"choice", "if", "jump"} \subseteq last.doc.nodes[key].keys
           /\ "say" \notin last.doc.nodes[key].keys
           /\ \/ "end" \notin last.doc.nodes[key].keys
                 /\ nodes[Str(key)].type = "CHOICE"
              \/ "end" \in last.doc.nodes[key].keys
                 /\ nodes[Str(key)].type = "END"

\* the values that are strings
IsString(value) == value \notin {IntZero, IntOne, FalseVal, TrueVal, NoneVal}

\* C16: after parse, start, every node id and every reference field (next,
\* then, else, jump target, each choice option next) is a string, and a
\* reference written in the document with the same token as a node key
\* (numeric-looking tokens included) is equal, by exact string equality, to
\* the id of the node parsed from that key.
C16_ReferencesNameNodes ==
    last.op = "load_dialogue" =>
        /\ IsString(start)
        /\ \A k \in DOMAIN nodes :
               /\ IsString(k) /\ IsString(nodes[k].id)
               /\ \A ref \in RefsOf(nodes[k]) : IsString(ref)
        /\ \A token \in DOMAIN last.doc.nodes :
               LET node_id == nodes[Str(token)].id IN
               /\ "start" \in last.doc.keys /\ last.doc.start = token
                      => start = node_id
               /\ \A key \in DOMAIN last.doc.nodes :
                      LET rec == last.doc.nodes[key]
                          node == nodes[Str(key)]
                      IN  KeyOf(last.doc, Str(key)) = key =>
                            /\ "next" \in rec.keys /\ rec.next = token
                                   => node.next = node_id
                            /\ node.type = "IF" /\ "then" \in rec.keys /\ rec.then = token
                                   => node.then_node = node_id
                            /\ node.type = "IF" /\ "else" \in rec.keys /\ rec.else = token
                                   => node.else_node = node_id
                            /\ node.type = "JUMP" /\ rec.jump = token
                                   => node.jump_target = node_id
                            /\ node.type = "CHOICE" =>
                                   \A i \in DOMAIN rec.choice :
                                       /\ "next" \in rec.choice[i].keys
                                       /\ rec.choice[i].next = token
                                       => node.choices[i].next = node_id

\* C17 as stated: serialize omits from the output every field whose value
\* equals its type's zero-value default (empty string, empty container),
\* with exactly two exceptions: every node record contains its ui position
\* pair, and the document contains start even when start is empty.
C17_OmitsZeroValues ==
    last.op = "save_dialogue" =>
        LET d == last.pre
            doc == last.doc
            empty(value) == value \in {"", NoneVal}
        IN  /\ "start" \in doc.keys
            /\ d.id = "" => "id" \notin doc.keys
            /\ DOMAIN d.characters = {} => "characters" \notin doc.keys
            /\ DOMAIN d.nodes = {} => "nodes" \notin doc.keys
            /\ \A k \in DOMAIN d.nodes :
                   LET node == d.nodes[k]
                       rec == doc.nodes[k]
                   IN  /\ "ui" \in rec.keys
                       /\ node.next = "" => "next" \notin rec.keys
                       /\ node.type = "SAY" =>
                              /\ node.speaker = "" => "speaker" \notin rec.say.keys
                              /\ node.text = "" => "text" \notin rec.say.keys
                       /\ node.type = "CHOICE" =>
                              /\ node.choices = << >> => "choice" \notin rec.keys
                              /\ \A i \in DOMAIN node.choices :
                                     /\ node.choices[i].text = ""
                                            => "text" \notin rec.choice[i].keys
                                     /\ node.choices[i].next = ""
                                            => "next" \notin rec.choice[i].keys
                                     /\ empty(node.choices[i].condition)
                                            => "if" \notin rec.choice[i].keys
                       /\ node.type = "IF" =>
                              /\ node.condition = "" => "if" \notin rec.keys
                              /\ node.then_node = "" => "then" \notin rec.keys
                              /\ node.else_node = "" => "else" \notin rec.keys
                       /\ node.type = "JUMP" /\ node.jump_target = ""
                              => "jump" \notin rec.keys

\* the key that tells the variant of a saved node
KeyOfType ==
    [t \in NodeType |->
        CASE t = "SAY" -> "say" [] t = "CHOICE" -> "choice" [] t = "SET" -> "set"
          [] t = "IF" -> "if" [] t = "JUMP" -> "jump" [] t = "SIGNAL" -> "signal"
          [] t = "END" -> "end"]

\* C17 amended: serialize omits a node's next, an If node's then and else,
\* a choice option's condition and the characters mapping when they are
\* empty; whatever their values, it writes id, start and nodes, every
\* node's ui position pair, and every node's variant key with its content:
\* say with speaker and text, choice with every option's text and next,
\* set, if, jump, signal, and end (as true when the outcome is empty).
C17_OmitsEmptyOptionalFields ==
    last.op = "save_dialogue" =>
        LET d == last.pre
            doc == last.doc
        IN  /\ {"id", "start", "nodes"} \subseteq doc.keys
            /\ doc.id = d.id /\ doc.start = d.start
            /\ "characters" \in doc.keys <=> DOMAIN d.characters # {}
            /\ DOMAIN doc.nodes = DOMAIN d.nodes
            /\ \A k \in DOMAIN d.nodes :
                   LET node == d.nodes[k]
                       rec == doc.nodes[k]
                   IN  /\ "ui" \in rec.keys
                       /\ KeyOfType[node.type] \in rec.keys
                       /\ node.next = "" => "next" \notin rec.keys
                       /\ "next" \in rec.keys => rec.next = node.next
                       /\ node.type = "SAY" =>
                              /\ rec.say.keys = {"speaker", "text"}
                              /\ rec.say.speaker = node.speaker
                              /\ rec.say.text = node.text
                       /\ node.type = "CHOICE" =>
                              /\ Len(rec.choice) = Len(node.choices)
                              /\ \A i \in DOMAIN node.choices :
                                     /\ {"text", "next"} \subseteq rec.choice[i].keys
                                     /\ rec.choice[i].text = node.choices[i].text
                                     /\ rec.choice[i].next = node.choices[i].next
                                     /\ "if" \in rec.choice[i].keys
                                            <=> node.choices[i].condition \notin {"", NoneVal}
                       /\ node.type = "IF" =>
                              /\ rec.if = node.condition
                              /\ "then" \in rec.keys <=> node.then_node # ""
                              /\ "else" \in rec.keys <=> node.else_node # ""
                       /\ node.type = "JUMP" => rec.jump = node.jump_target
                       /\ node.type = "END" =>
                              rec.end = IF node.outcome = "" THEN TrueVal ELSE node.outcome

\* a dialogue without characters was saved that holds a Jump node with no
\* target and a Say node with no speaker and no next
C17_Witness ==
    /\ last.op = "save_dialogue"
    /\ DOMAIN last.pre.characters = {}
    /\ \E j, k \in DOMAIN last.pre.nodes :
           /\ last.pre.nodes[j].type = "JUMP" /\ last.pre.nodes[j].jump_target = ""
           /\ last.pre.nodes[k].type = "SAY" /\ last.pre.nodes[k].speaker = ""
           /\ last.pre.nodes[k].next = ""

(***************************************************************************)
(* yaml_to_dialogic.py: DialogueConverter._process_node_content, the       *)
(* events of one node of the document.                                     *)
(***************************************************************************)
Event(event_name) ==
    [event_name |-> event_name, name |-> "", target |-> "", character |-> "",
     text |-> "", condition |-> "", outcome |-> ""]

\* the events of one entry of the "choice" list
ChoiceEvents(choice) ==
       <<[Event("dialogic_choice_event") EXCEPT
             !.text = Get(choice, "text", choice.text),
             !.condition = Get(choice, "if", choice.if)]>>
    \o (IF Truthy(Get(choice, "next", choice.next))
        THEN <<[Event("dialogic_jump_event") EXCEPT !.target = choice.next],
               Event("dialogic_end_branch_event")>>
        ELSE << >>)

\* _process_node_content(node, events): the events it appends.  The "set"
\* and "signal" mappings of the documents at hand are the saver's: "set" is
\* the empty mapping of a new node, and yields no event
ProcessNodeContent(node) ==
       (IF "say" \in node.keys
        THEN <<[Event("dialogic_text_event") EXCEPT
                   !.character = Get(node.say, "speaker", node.say.speaker),
                   !.text = Get(node.say, "text", node.say.text)]>>
        ELSE << >>)
    \o (IF "choice" \in node.keys
        THEN Flatten([i \in DOMAIN node.choice |-> ChoiceEvents(node.choice[i])])
        ELSE << >>)
    \o (IF "if" \in node.keys
        THEN    <<[Event("dialogic_condition_event") EXCEPT !.condition = node.if]>>
             \o (IF Truthy(Get(node, "then", node.then))
                 THEN <<[Event("dialogic_jump_event") EXCEPT !.target = node.then]>>
                 ELSE << >>)
             \o (IF Truthy(Get(node, "else", node.else))
                 THEN <<Event("dialogic_else_event"),
                        [Event("dialogic_jump_event") EXCEPT !.target = node.else]>>
                 ELSE << >>)
             \o <<Event("dialogic_end_branch_event")>>
        ELSE << >>)
    \o (IF "jump" \in node.keys
        THEN <<[Event("dialogic_jump_event") EXCEPT !.target = node.jump]>>
        ELSE << >>)
    \o (IF "signal" \in node.keys THEN <<Event("dialogic_signal_event")>> ELSE << >>)
    \o (IF "end" \in node.keys
        THEN <<[Event("dialogic_end_event") EXCEPT
                   !.outcome = IF node.end \notin {TrueVal, IntOne}
                               THEN Str(node.end) ELSE ""]>>
        ELSE << >>)

\* the label event _process_node_chain puts before a node's events
LabelEvent(node_id) == [Event("dialogic_label_event") EXCEPT !.name = node_id]

(***************************************************************************)
(* The two recursive traversals, call by call: Dialogue._find_reachable    *)
(* as validate calls it, and DialogueConverter._process_node_chain as      *)
(* convert calls it on the saved dialogue.  A frame of the stack is one    *)
(* call: its argument, whether it is past its guard, and the calls it is   *)
(* still to make.                                                          *)
(***************************************************************************)
Frame(node_id) == [node_id |-> node_id, entered |-> FALSE, todo |-> << >>]

\* the deepest stack a traversal is let to build; a traversal that visits no
\* node twice needs one frame per node and one for the call that returns
MaxDepth == MaxNodes + 3

Top == trav.stack[Len(trav.stack)]
Pop == SubSeq(trav.stack, 1, Len(trav.stack) - 1)
ReplaceTop(frame) == [trav.stack EXCEPT ![Len(trav.stack)] = frame]

\* the calls of convert_all on the document it has read
ConvertOps == {"safe_load", "convert"}

\* the document convert works on: the YAML file convert_all has read, or
\* else the dialogue as the editor saves it
Data == IF last.op \in ConvertOps THEN last.doc ELSE DialogueToDict(Dlg)

\* NodeEvents with the label put after the node's events
NodeEventsLabelLast(node_id) ==
    ProcessNodeContent(Data.nodes[node_id]) \o <<LabelEvent(node_id)>>

\* the events _process_node_chain appends for a node it visits
NodeEvents(node_id) ==
    <<LabelEvent(node_id)>> \o ProcessNodeContent(Data.nodes[node_id])

\* the guard of _find_reachable: the call returns at once
FindReachableReturns(node_id, visited) ==
    node_id = "" \/ node_id \in visited \/ node_id \notin DOMAIN nodes

\* FindReachableCalls without the call on else_node
FindReachableCallsNoElse(node) ==
    SelectSeq(<<node.next>>
                  \o [i \in DOMAIN node.choices |-> node.choices[i].next]
                  \o <<node.then_node, node.jump_target>>,
              LAMBDA ref : ref # "")

\* the recursive calls of _find_reachable on a node, in order
FindReachableCalls(node) ==
    SelectSeq(<<node.next>>
                  \o [i \in DOMAIN node.choices |-> node.choices[i].next]
                  \o <<node.then_node, node.else_node, node.jump_target>>,
              LAMBDA ref : ref # "")

\* ProcessNodeChainReturns without the "node_id in visited" test
ProcessNodeChainReturnsUnknownOnly(node_id, visited) ==
    node_id \notin DOMAIN Data.nodes

\* the guard of _process_node_chain: the call returns at once
ProcessNodeChainReturns(node_id, visited) ==
    node_id \in visited \/ node_id \notin DOMAIN Data.nodes

\* the recursive call of _process_node_chain on a node of the document
ProcessNodeChainCalls(node) ==
    IF ~Truthy(Get(node, "end", node.end)) /\ "next" \in node.keys
    THEN <<node.next>> ELSE << >>

\* validate reaches "self._find_reachable(self.start, reachable)"
FindReachableBegin ==
    /\ trav.alg = "none"
    /\ trav' = [Idle EXCEPT !.alg = "find_reachable", !.stack = <<Frame(start)>>]
    /\ UNCHANGED <<dvars, removed, last, saved>>

\* ConvertLocals with the visited set of the call before kept
ConvertLocalsKept ==
    [trav EXCEPT !.alg = "process_node_chain", !.events = << >>, !.owners = << >>]

\* "events = []" and "visited = set()": the locals of a call of convert
ConvertLocals == [Idle EXCEPT !.alg = "process_node_chain"]

\* convert reaches "self._process_node_chain(self.start_node, events, visited)"
ProcessNodeChainBegin ==
    /\ trav.alg = "none"
    /\ trav' = [ConvertLocals EXCEPT
                    !.stack = <<Frame(Get(Data, "start", Data.start))>>]
    /\ UNCHANGED <<dvars, removed, last, saved>>

\* a call of _find_reachable runs up to its first recursive call
FindReachableEnter ==
    /\ trav.alg = "find_reachable" /\ trav.stack # << >> /\ ~Top.entered
    /\ IF FindReachableReturns(Top.node_id, trav.visited)
       THEN trav' = [trav EXCEPT !.stack = Pop]
       ELSE trav' = [trav EXCEPT
                !.visited = @ \cup {Top.node_id},
                !.log = Append(@, Top.node_id),
                !.stack = ReplaceTop([Top EXCEPT
                              !.entered = TRUE,
                              !.todo = FindReachableCalls(nodes[Top.node_id])])]
    /\ UNCHANGED <<dvars, removed, last, saved>>

\* a call of _process_node_chain runs up to its recursive call
ProcessNodeChainEnter ==
    /\ trav.alg = "process_node_chain" /\ trav.stack # << >> /\ ~Top.entered
    /\ IF ProcessNodeChainReturns(Top.node_id, trav.visited)
       THEN trav' = [trav EXCEPT !.stack = Pop]
       ELSE trav' = [trav EXCEPT
                !.visited = @ \cup {Top.node_id},
                !.log = Append(@, Top.node_id),
                !.events = @ \o NodeEvents(Top.node_id),
                !.owners = @ \o [i \in DOMAIN NodeEvents(Top.node_id) |-> Top.node_id],
                !.stack = ReplaceTop([Top EXCEPT
                              !.entered = TRUE,
                              !.todo = ProcessNodeChainCalls(Data.nodes[Top.node_id])])]
    /\ UNCHANGED <<dvars, removed, last, saved>>

\* the call on top of the stack makes its next recursive call
TraversalCall ==
    /\ trav.stack # << >> /\ Top.entered /\ Top.todo # << >>
    /\ Len(trav.stack) < MaxDepth
    /\ trav' = [trav EXCEPT
           !.stack = Append(ReplaceTop([Top EXCEPT !.todo = Tail(@)]),
                            Frame(Head(Top.todo)))]
    /\ UNCHANGED <<dvars, removed, last, saved>>

\* the call on top of the stack has made its calls and returns
TraversalReturn ==
    /\ trav.stack # << >> /\ Top.entered /\ Top.todo = << >>
    /\ trav' = [trav EXCEPT !.stack = Pop]
    /\ UNCHANGED <<dvars, removed, last, saved>>

\* validate, its traversal done, lists the unreachable nodes and returns
ValidateReturn ==
    /\ trav.alg = "find_reachable" /\ trav.stack = << >>
    /\ last.op # "validate"
    /\ last' = Call("validate", "", DialogueNode(""), TRUE, FALSE,
                    ValidateWith(Dlg, trav.visited))
    /\ UNCHANGED <<dvars, removed, trav, saved>>

TraversalStep ==
    \/ FindReachableEnter
    \/ ProcessNodeChainEnter
    \/ TraversalCall
    \/ TraversalReturn

(***************************************************************************)
(* The traversals on any graph of MaxNodes + 1 nodes, cycles included.     *)
(***************************************************************************)
GraphIds == {IdNames[i] : i \in 1..(MaxNodes + 1)}

\* the nodes of the graphs: each holds the edges of one variant
GraphInputs ==
    UNION {
           {Say(nid, "", t) : t \in GraphIds \cup {""}}
      \cup {Jump(nid, t) : t \in GraphIds}
      \cup {If(nid, p[1], p[2]) : p \in {q \in GraphIds \X GraphIds : q[1] # q[2]}}
      \cup {Choice(nid, <<ChoiceOption(""), ChoiceOption(t)>>) : t \in GraphIds}
      \cup {End(nid)}
      : nid \in GraphIds }

InitGraph ==
    /\ id = "dialogue_1"
    /\ start \in GraphIds \cup {"", UnknownId}
    /\ characters = NoCharacters
    /\ nodes \in {f \in [GraphIds -> GraphInputs] : \A k \in GraphIds : f[k].id = k}
    /\ nodeOrder = [i \in 1..(MaxNodes + 1) |-> IdNames[i]]
    /\ is_modified = FALSE
    /\ removed = {}
    /\ last = NoCall
    /\ trav = Idle
    /\ saved = NoSave

NextGraph ==
    \/ FindReachableBegin
    \/ ProcessNodeChainBegin
    \/ FindReachableEnter
    \/ ProcessNodeChainEnter
    \/ TraversalCall
    \/ TraversalReturn
    \/ ValidateReturn

\* a call that has begun runs on: the code is sequential and never waits
SpecGraph == InitGraph /\ [][NextGraph]_vars /\ WF_vars(TraversalStep)

(***************************************************************************)
(* convert_all: a YAML file of the source directory is read, validated     *)
(* and, when DialogueConverter.validate finds no error, converted.         *)
(***************************************************************************)
\* the documents of the source directory: a node a with any set of keys
\* whose references name the End node b, and whose "end" value is true,
\* false or an outcome
ConvertInputs ==
    {Doc(st, [k \in {"a", "b"} |->
                 IF k = "a" THEN DocNode(K, "b", end_value)
                 ELSE DocNode({"end"}, "", TrueVal)],
         <<"a", "b">>) :
        st \in {"a", "b"}, K \in SUBSET NodeKeys,
        end_value \in {TrueVal, FalseVal, "win"}}

\* "data = yaml.safe_load(f)"
InitConvert ==
    /\ id = "dialogue_1"
    /\ start = ""
    /\ characters = NoCharacters
    /\ nodes = NoNodes
    /\ nodeOrder = << >>
    /\ is_modified = FALSE
    /\ removed = {}
    /\ last \in {[op |-> "safe_load", doc |-> data] : data \in ConvertInputs}
    /\ trav = Idle
    /\ saved = NoSave

\* "if not converter.validate(): ... continue", else "converter.convert()"
ConvertBegin ==
    /\ last.op = "safe_load"
    /\ ConverterErrors(last.doc) = << >>
    /\ ProcessNodeChainBegin

NextConvert ==
    \/ ConvertBegin
    \/ ProcessNodeChainEnter
    \/ TraversalCall
    \/ TraversalReturn

SpecConvert == InitConvert /\ [][NextConvert]_vars

(***************************************************************************)
(* The timeline: convert returns the events, which convert_all writes as   *)
(* JSON; the converter may be asked to convert again; and                  *)
(* generate_dialogue_audio.py parse_dtl_file reads the timeline back       *)
(* (json.dumps and json.loads carry the events unchanged).                 *)
(***************************************************************************)
\* the keys of an event, as _process_node_content builds it
EventKeys(event) ==
    {"event_name"} \cup
    CASE event.event_name = "dialogic_label_event"     -> {"name"}
      [] event.event_name = "dialogic_text_event"      -> {"character", "text"}
      [] event.event_name = "dialogic_choice_event"    ->
             {"text"} \cup (IF Truthy(event.condition) THEN {"condition"} ELSE {})
      [] event.event_name = "dialogic_jump_event"      -> {"target"}
      [] event.event_name = "dialogic_condition_event" -> {"condition"}
      [] event.event_name = "dialogic_signal_event"    -> {"signal_name", "arguments"}
      [] event.event_name = "dialogic_end_event"       -> {"outcome"}
      [] OTHER                                         -> {}

\* text.strip() of the texts at hand: a blank text strips to nothing
Strip(text) == IF text = " " THEN "" ELSE text

RECURSIVE ParseDtlFrom(_, _)
\* the loop of parse_dtl_file over data["events"], from the event i on
ParseDtlFrom(events, i) ==
    IF i > Len(events) THEN << >>
    ELSE LET event == events[i]
             taken == /\ \/ event.event_name = "dialogic_text_event"
                         \/ "text" \in EventKeys(event)
                      /\ Strip(event.text) # ""
         IN  (IF taken
              THEN <<[index     |-> i - 1,
                      text      |-> event.text,
                      character |-> IF "character" \in EventKeys(event)
                                    THEN event.character ELSE "default"]>>
              ELSE << >>)
             \o ParseDtlFrom(events, i + 1)

\* parse_dtl_file on a timeline that holds these events
ParseDtlFile(events) == ParseDtlFrom(events, 1)

\* the record of convert and of parse_dtl_file: the document, the events
\* convert returned and the lines parse_dtl_file returned
TimelineCall(op, ret, lines) ==
    [op |-> op, doc |-> last.doc, ret |-> ret, lines |-> lines]

\* "dtl_content = converter.convert()": the first call returns
ConvertReturn ==
    /\ last.op = "safe_load"
    /\ trav.alg = "process_node_chain" /\ trav.stack = << >>
    /\ last' = TimelineCall("convert", trav.events, << >>)
    /\ trav' = [trav EXCEPT !.alg = "none"]
    /\ UNCHANGED <<dvars, removed, saved>>

\* convert is called once more on the same converter
ConvertAgain ==
    /\ last.op = "convert"
    /\ ProcessNodeChainBegin

\* parse_dtl_file reads the timeline that was written
ParseDtlStep ==
    /\ last.op = "convert"
    /\ trav.alg = "none"
    /\ last' = TimelineCall("parse_dtl_file", last.ret, ParseDtlFile(last.ret))
    /\ UNCHANGED <<dvars, removed, trav, saved>>

NextTimeline ==
    \/ ConvertBegin
    \/ ProcessNodeChainEnter
    \/ TraversalCall
    \/ TraversalReturn
    \/ ConvertReturn
    \/ ConvertAgain
    \/ ParseDtlStep

SpecTimeline == InitConvert /\ [][NextTimeline]_vars

(***************************************************************************)
(* convert_all over the files of the source directory, file by file.  A    *)
(* file is no YAML (safe_load raises YAMLError), empty (safe_load returns  *)
(* None), a scalar (YAML that is no mapping) or a mapping.                 *)
(***************************************************************************)
File(kind, data) == [kind |-> kind, doc |-> data]

\* a document that passes DialogueConverter.validate: a Say node and the End
\* node it names as its next
GoodDoc ==
    Doc("a", [k \in {"a", "b"} |->
                 IF k = "a" THEN DocNode({"say", "next"}, "b", TrueVal)
                 ELSE DocNode({"end"}, "", TrueVal)],
        <<"a", "b">>)

\* a document whose start names no node and whose node's next dangles
BadDoc ==
    Doc(UnknownId, [k \in {"a"} |-> DocNode({"say", "next"}, UnknownId, TrueVal)],
        <<"a">>)

FileInputs ==
    {File("yaml_error", GoodDoc), File("empty", GoodDoc), File("scalar", GoodDoc),
     File("mapping", GoodDoc), File("mapping", BadDoc)}

\* the directories: none, or one that holds up to MaxFiles files
Directories ==
    {[exists |-> FALSE, files |-> << >>]}
        \cup {[exists |-> TRUE, files |-> fs] :
                 fs \in UNION {[1..n -> FileInputs] : n \in 0..MaxFiles}}

\* the state of a call of convert_all: the directory, the flags, the place
\* i of the file at hand, total_errors, and the return value (-1 as long as
\* there is none); failed (the
\* files that failed YAML parsing or validation) and written (the files a
\* timeline was written for) are history
ConvertAllCall(op, dir, mode) ==
    [op |-> op, doc |-> GoodDoc, exists |-> dir.exists, files |-> dir.files,
     mode |-> mode, i |-> 1, total_errors |-> 0, failed |-> {}, written |-> {},
     ret |-> -1]

InitConvertAll ==
    /\ id = "dialogue_1"
    /\ start = ""
    /\ characters = NoCharacters
    /\ nodes = NoNodes
    /\ nodeOrder = << >>
    /\ is_modified = FALSE
    /\ removed = {}
    /\ last \in {ConvertAllCall("convert_all", dir, mode) :
                    dir \in Directories,
                    mode \in {"write", "validate_only", "dry_run"}}
    /\ trav = Idle
    /\ saved = NoSave

\* convert_all up to its loop: "if not SRC_DIR.exists(): return 1" and
\* "if not yaml_files: return 0"
ConvertAllEnter ==
    /\ last.op = "convert_all"
    /\ last' = IF ~last.exists THEN [last EXCEPT !.op = "return", !.ret = 1]
               ELSE IF last.files = << >> THEN [last EXCEPT !.op = "return", !.ret = 0]
               ELSE [last EXCEPT !.op = "loop"]
    /\ UNCHANGED <<dvars, removed, trav, saved>>

\* one turn of "for yaml_file in yaml_files" up to "converter.convert()":
\* DialogueConverter(data, name) calls data.get, which a scalar has not
ReadFile ==
    /\ last.op = "loop" /\ last.i <= Len(last.files)
    /\ LET file == last.files[last.i]
           errors == ConverterErrors(file.doc)
       IN  last' =
             CASE file.kind = "yaml_error" ->
                    [last EXCEPT !.total_errors = @ + 1,
                                 !.failed = @ \cup {last.i}, !.i = @ + 1]
               [] file.kind = "empty" -> [last EXCEPT !.i = @ + 1]
               [] file.kind = "scalar" -> [last EXCEPT !.op = "raise"]
               [] file.kind = "mapping" /\ errors # << >> ->
                    [last EXCEPT !.total_errors = @ + Len(errors),
                                 !.failed = @ \cup {last.i}, !.i = @ + 1]
               [] file.kind = "mapping" /\ errors = << >>
                                       /\ last.mode = "validate_only" ->
                    [last EXCEPT !.i = @ + 1]
               [] OTHER -> [last EXCEPT !.op = "safe_load", !.doc = file.doc]
    /\ UNCHANGED <<dvars, removed, trav, saved>>

\* convert has returned: the timeline is written, unless dry_run, and the
\* loop goes on
WriteTimeline ==
    /\ last.op = "safe_load"
    /\ trav.alg = "process_node_chain" /\ trav.stack = << >>
    /\ last' = [last EXCEPT
                   !.op = "loop",
                   !.written = IF last.mode = "dry_run" THEN @ ELSE @ \cup {last.i},
                   !.i = @ + 1]
    /\ trav' = Idle
    /\ UNCHANGED <<dvars, removed, saved>>

\* the loop is over: "return 1" if total_errors > 0, else "return 0"
ConvertAllReturn ==
    /\ last.op = "loop" /\ last.i > Len(last.files)
    /\ last' = [last EXCEPT !.op = "return",
                            !.ret = IF last.total_errors > 0 THEN 1 ELSE 0]
    /\ UNCHANGED <<dvars, removed, trav, saved>>

NextConvertAll ==
    \/ ConvertAllEnter
    \/ ReadFile
    \/ ConvertBegin
    \/ ProcessNodeChainEnter
    \/ TraversalCall
    \/ TraversalReturn
    \/ WriteTimeline
    \/ ConvertAllReturn

SpecConvertAll == InitConvertAll /\ [][NextConvertAll]_vars

(***************************************************************************)
(* Properties of the traversals.                                           *)
(***************************************************************************)
Started == trav.alg # "none"
Finished == trav.alg # "none" /\ trav.stack = << >>

\* no node entered the visited set twice, and no node id is labelled twice
NoRevisit ==
    /\ \A i, j \in DOMAIN trav.log : trav.log[i] = trav.log[j] => i = j
    /\ \A i, j \in DOMAIN trav.events :
           /\ trav.events[i].event_name = "dialogic_label_event"
           /\ trav.events[i] = trav.events[j]
           => i = j

\* the traversal of validate, call by call, ends with the visited set that
\* FindReachable computes
FindReachableAgrees ==
    Finished /\ trav.alg = "find_reachable" =>
        trav.visited = FindReachable(nodes, start, {})

\* C7: on every finite dialogue graph, graphs with cycles included (a.next =
\* b, b.next = a), the traversal of Dialogue.validate and the traversal of
\* DialogueConverter.convert terminate, and each processes every node at most
\* once: a node enters the visited set once and convert emits at most one
\* label event per node id.
C7_TraversalsTerminate == [](NoRevisit) /\ (Started ~> Finished)

\* a traversal has ended on a graph whose first two visited nodes are each
\* other's next
C7_Witness ==
    /\ Finished
    /\ Len(trav.log) >= 2
    /\ nodes[trav.log[1]].next = trav.log[2]
    /\ nodes[trav.log[2]].next = trav.log[1]

\* the places of the events emitted for the node n
EventsOf(n) == {j \in DOMAIN trav.events : trav.owners[j] = n}

\* C18: in the event sequence produced by convert, every node the traversal
\* visits contributes a label event carrying its node id that precedes all
\* other events emitted for that node, and no node id is labelled more than
\* once.
C18_LabelFirst ==
    trav.alg = "process_node_chain" =>
        /\ \A n \in trav.visited :
               /\ EventsOf(n) # {}
               /\ \A j \in EventsOf(n) :
                      (\A i \in EventsOf(n) : j <= i) <=>
                          /\ trav.events[j].event_name = "dialogic_label_event"
                          /\ trav.events[j].name = n
        /\ \A i, j \in DOMAIN trav.events :
               /\ trav.events[i].event_name = "dialogic_label_event"
               /\ trav.events[j].event_name = "dialogic_label_event"
               /\ trav.events[i].name = trav.events[j].name
               => i = j

\* convert has ended after visiting two nodes or more, one of them with
\* several events of its own
C18_Witness ==
    /\ Finished /\ trav.alg = "process_node_chain"
    /\ Len(trav.log) >= 2
    /\ \E n \in trav.visited : Cardinality(EventsOf(n)) >= 3

\* C19: for a dialogue that passes validation, every jump event in the
\* sequence produced by convert (from a Jump node, a Choice option or an If
\* then/else) has a target for which a label event with that name occurs
\* somewhere in the same sequence.
C19_JumpTargetsLabelled ==
    /\ Finished /\ trav.alg = "process_node_chain"
    /\ Validate(Dlg) = << >>
    /\ ConverterErrors(Data) = << >>
    => \A j \in DOMAIN trav.events :
           trav.events[j].event_name = "dialogic_jump_event" =>
               \E i \in DOMAIN trav.events :
                   /\ trav.events[i].event_name = "dialogic_label_event"
                   /\ trav.events[i].name = trav.events[j].target

\* the variant of a node of the document convert works on
VariantOf(node_id) == ParseNode(Str(node_id), Data.nodes[node_id]).type

\* C20: after emitting the events of a Choice node or of an If node, convert
\* does not continue the traversal through that node's own next: no node is
\* visited (labelled) as the next-successor of a Choice or If node.  (The
\* traversal only follows next, so each visited node but the first is the
\* next-successor of the node visited before it.)
C20_NoFallThrough ==
    trav.alg = "process_node_chain" =>
        \A i \in 1..(Len(trav.log) - 1) :
            VariantOf(trav.log[i]) \notin {"CHOICE", "IF"}

\* the events of the kind event_name emitted for the node n
EventsNamed(n, event_name) ==
    {j \in EventsOf(n) : trav.events[j].event_name = event_name}

\* C21: a Jump node produces exactly one jump event to its target and the
\* traversal stops at it: neither the jump target nor any next-successor is
\* visited as a continuation of the Jump node.
C21_JumpStops ==
    trav.alg = "process_node_chain" =>
        \A i \in DOMAIN trav.log :
            VariantOf(trav.log[i]) = "JUMP" =>
                /\ i = Len(trav.log)
                /\ Cardinality(EventsNamed(trav.log[i], "dialogic_jump_event")) = 1
                /\ \A j \in EventsNamed(trav.log[i], "dialogic_jump_event") :
                       trav.events[j].target = Data.nodes[trav.log[i]].jump

\* C22: every node record that has an end key produces one terminal end
\* event whose outcome is the outcome string (the empty string when no
\* outcome is given), and the traversal stops at it: no node is visited as
\* its next-successor, whatever the value of the end key.
C22_EndStops ==
    trav.alg = "process_node_chain" =>
        \A i \in DOMAIN trav.log :
            LET n == trav.log[i]
                ends == EventsNamed(n, "dialogic_end_event")
            IN  "end" \in Data.nodes[n].keys =>
                    /\ i = Len(trav.log)
                    /\ Cardinality(ends) = 1
                    /\ \A j \in ends :
                           /\ \A k \in EventsOf(n) : k <= j
                           /\ trav.events[j].outcome
                                  = ParseNode(Str(n), Data.nodes[n]).outcome

\* C27: the lowering covers what the validator calls reachable: for a
\* dialogue on which Dialogue.validate returns no diagnostics, convert
\* applied to its serialized form emits a label event for every node of the
\* dialogue.
C27_ConvertCoversReachable ==
    /\ Finished /\ trav.alg = "process_node_chain"
    /\ Validate(Dlg) = << >>
    => \A k \in DOMAIN nodes :
           \E i \in DOMAIN trav.events :
               trav.events[i] = LabelEvent(k)

\* C23: running convert twice on the same dialogue data returns identical
\* event sequences (same events, same order, same field values).
C23_ConvertDeterministic ==
    last.op = "convert" /\ Finished => trav.events = last.ret

\* the second call of convert has ended with several events, after visiting
\* two nodes
C23_Witness ==
    /\ last.op = "convert" /\ Finished
    /\ Len(trav.log) >= 2 /\ Len(trav.events) >= 5

\* C24: from a generated timeline the audio pipeline extracts lines only
\* from text events (Say nodes): parse_dtl_file returns no line for a
\* choice, label, jump, variable, condition, signal or end event.
C24_LinesOfTextEventsOnly ==
    last.op = "parse_dtl_file" =>
        \A i \in DOMAIN last.lines :
            last.ret[last.lines[i].index + 1].event_name = "dialogic_text_event"

\* C26: convert_all writes a timeline for a dialogue file only if
\* DialogueConverter.validate returned no error for it, keeps processing
\* the remaining files after a failing one, and returns exit code 1 exactly
\* when at least one file failed YAML parsing or validation, otherwise 0.
C26_ConvertAllExitCode ==
    /\ \A k \in last.written :
           /\ last.files[k].kind = "mapping"
           /\ ConverterErrors(last.files[k].doc) = << >>
    /\ last.op \in {"return", "raise"} =>
           /\ last.failed # {} => last.i > Len(last.files)
           /\ last.ret = IF last.failed # {} THEN 1 ELSE 0

\* C29: over any sequence of load_dialogue, add_node, remove_node,
\* add_character, remove_character and save_dialogue, is_modified is false
\* immediately after a successful load or save, and is true whenever nodes,
\* characters or start differ from their values at the last successful load
\* or save.
C29_ModifiedFlag ==
    /\ last.op \in FileOps => ~is_modified
    /\ /\ saved.valid
       /\ \/ nodes # saved.nodes
          \/ characters # saved.characters
          \/ start # saved.start
       => is_modified

\* after a load or a save, a store call has left a dialogue whose nodes and
\* characters both differ from the ones loaded or saved
C29_Witness ==
    /\ saved.valid /\ DOMAIN saved.nodes # {}
    /\ last.op \in StoreOps
    /\ nodes # saved.nodes /\ characters # saved.characters
    /\ is_modified
====
